---- MODULE Spec2Model ----
(***************************************************************************)
(* Fuzzy clustering engine of PyGMI (src/pygmi/clust/fuzzy_clust.py):      *)
(* FuzzyClust.run, FuzzyClust.fuzzy_means and fuzzy_dist.                   *)
(*                                                                         *)
(* Numbers.  The code computes in float64.  The model computes on fixed    *)
(* grids with truncating division, one rounding per arithmetic result:     *)
(*   positions (samples and centers) : integers, PosScale units per 1.0    *)
(*   distances               : integers, DistScale units per 1.0; the      *)
(*                             distance grid is finer than the position    *)
(*                             grid, and its smallest positive value, EPS, *)
(*                             stands for the floor 1e-10 of fuzzy_dist:   *)
(*                             below every distance between two positions  *)
(*   memberships uuu         : integers, MemScale units per 1.0            *)
(*   weights m_f = uuu**expo : integers, MfScale units per 1.0             *)
(*   objective values        : distance units squared times MfScale        *)
(*   expo                    : hundredths (the spin box has two decimals)  *)
(* Inf is float64 inf and NaN is float64 nan: inf / inf is nan, every      *)
(* arithmetic result with a nan operand is nan, every comparison with a    *)
(* nan operand is False.                                                   *)
(* Both are reached with expo = 1.01, where edist ** (-2 / (expo - 1)) is   *)
(* (1e-10) ** (-200) for a sample that lies on a center.                   *)
(* Huge is a sample value (1e200) whose squared difference to a center is  *)
(* above the float64 range: the distance is inf before the replacement of  *)
(* line 815.                                                               *)
(* The data has one feature (N = 1), so that the Euclidean distance        *)
(* sqrt(sum((x - c)^2)) is |x - c|.                                        *)
(***************************************************************************)
EXTENDS Integers, Sequences, FiniteSets, TLC

\* ------------------------------------------------------------- number grids
PosScale == 2^1        \* grid units per 1.0 for positions
DistScale == 2^2       \* grid units per 1.0 for distances
MemScale == 2^14       \* grid units per 1.0 for memberships
MfScale == 2^18        \* grid units per 1.0 for m_f = uuu ** expo
TmpNum == 2^16         \* numerator of d^(-2) on the grid

\* ------------------------------------------------------------------ bounds
MaxVal == 2            \* sample values are 0..MaxVal
NumSamples == 3        \* M, the number of samples
MaxClust == 4          \* cluster counts are 1..MaxClust
MaxIter == 3           \* max_iter is 1..MaxIter
MaxCalls == 2          \* run() calls fuzzy_means at most MaxCalls times
GridStep == 1          \* spacing of the random draws inside [low, high)
MaxBands == 2          \* settings() sees 1..MaxBands raster bands
MaxSide == 3           \* rows and columns of a band are 1..MaxSide

\* --------------------------------------------------------- program constants
EPS == 1               \* the floor 1e-10 put in place of a zero distance
Inf == 2000000000      \* np.Inf, above every objective value of the model
DataTypes == 1         \* N, the number of features of the sample matrix

VARIABLES
    caller,      \* "run": FuzzyClust.run drives; "direct": fuzzy_means called;
                 \* "settings": FuzzyClust.settings is the entry point
    pc,          \* position of the program
    exc,         \* exception that ended the program, "" when none
    printed,     \* messages printed by fuzzy_means
    \* ---- parameters (run: lines 252-262; fuzzy_means: its arguments)
    dat_in, min_cluster, max_cluster, no_runs, max_iter, term_thresh, expo,
    cltype,      \* "fcm", "det" or "gk" (lines 545-550)
    cov_constr,  \* the shape constraint, in hundredths
    strategy,    \* the checked radio button: "random", "manual", "datadriven"
    \* ---- settings(): lines 194-223
    shapes,      \* i.data.shape of every band of indata['Raster']
    test,        \* the argument of settings()
    sret,        \* what settings() returned, None while it has not
    run_called,  \* settings() has invoked self.run() (history)
    \* ---- locals of run()
    run_i, run_j, cnt, clu, clcent, clobj_fcn, clvidx, dat_out, outdata,
    \* ---- locals of fuzzy_means()
    no_clust, init, cent, uuu, m_f, edist, obj_fcn, i,
    cent_prev, uprev, dist_prev, ret,
    \* ---- history (not program state)
    state,       \* state of the optimisation loop, section 4.3 of the spec
    kept,        \* outputs of the iterations completed so far, in order
    restarts,    \* runs completed for the current cluster count, in order
    clrun,       \* index in restarts of the run held in clu/clcent/clobj_fcn
    calls,       \* the cluster count of every fuzzy_means call of run()
    first        \* what the first of two fuzzy_means calls returned

vars == <<caller, pc, exc, printed,
          dat_in, min_cluster, max_cluster, no_runs, max_iter, term_thresh,
          expo, run_i, run_j, cnt, clu, clcent, clobj_fcn, clvidx, dat_out,
          outdata, no_clust, init, cent, uuu, m_f, edist, obj_fcn, i,
          cent_prev, uprev, dist_prev, ret, state, kept, restarts, clrun,
          cltype, cov_constr, strategy, calls, first,
          shapes, test, sret, run_called>>

runparams == <<caller, dat_in, min_cluster, max_cluster, no_runs, max_iter,
               term_thresh, expo, cltype, cov_constr, strategy>>
\* what neither run() nor fuzzy_means assigns: the parameters, and the
\* names of settings()
params == <<runparams, shapes, test, sret, run_called>>
runlocals == <<run_i, run_j, cnt, clu, clcent, clobj_fcn, clvidx, dat_out,
               outdata, restarts, clrun, calls>>
fmlocals == <<no_clust, init, cent, uuu, m_f, edist, obj_fcn, i,
              cent_prev, uprev, dist_prev, ret, state, kept>>

\* ------------------------------------------------------------------ helpers
None == <<>>          \* an unbound Python name, or an empty array
NaN == -(2^30)        \* float64 nan (below every number of the model)
Huge == 2^20          \* the sample value 1e200

Abs(x) == IF x < 0 THEN -x ELSE x
Min2(a, b) == IF a < b THEN a ELSE b
Max2(a, b) == IF a < b THEN b ELSE a

RECURSIVE GCD(_, _)
GCD(a, b) == IF b = 0 THEN a ELSE GCD(b, a % b)

RECURSIVE SumTo(_, _)
SumTo(s, n) == IF n = 0 THEN 0 ELSE s[n] + SumTo(s, n - 1)

\* np.sum of a vector (the vector is evaluated once, as v)
SumSeq(s) == CHOOSE r \in {SumTo(v, Len(v)) : v \in {s}} : TRUE

\* np.sum(mat, 0)[k]: the sum of column k
ColSum(mat, k) == SumSeq([j \in 1..Len(mat) |-> mat[j][k]])

\* np.sum(mat): the sum of all entries
MatSum(mat) == SumSeq([j \in 1..Len(mat) |-> SumSeq(mat[j])])

Rows(mat) == Len(mat)
Cols(mat) == IF mat = <<>> THEN 0 ELSE Len(mat[1])

\* ------------------------------------------------------------- fuzzy_dist
\* ddd[ddd == 0] = 1e-10: a zero distance is replaced by the floor; every
\* other value is left as it is.
FloorZero(d) == IF d = 0 THEN EPS ELSE d

\* (data - cent[j]) ** 2 is inf for a sample at Huge (the centers of the
\* model are on the grid)
Overflows(x) == x = Huge

\* uuu ** expo for one entry (x ** 0 is 1 in numpy, for nan too; u ** 1.01
\* is within 0.4 per cent of u and is taken as u).
MfPow(u, e) ==
    IF e = 0 THEN MfScale
    ELSE IF u = NaN THEN NaN
    ELSE IF e = 200 THEN (u * u) \div ((MemScale * MemScale) \div MfScale)
    ELSE u * (MfScale \div MemScale)

\* aaa of cluster j, lines 717-723 and 750-758, with one feature: the
\* m_f-weighted mean of (data - cent[j]) ** 2, a 1 x 1 matrix kept as its
\* kind "nan", "zero" or "pos".  m_f is above 0 for every finite membership,
\* so the mean is 0 only when every sample is on the center.
Covariance(centers, data, u, e, j) ==
    IF \/ centers[j] = NaN
       \/ \E k \in 1..Len(data) : MfPow(u[j][k], e) = NaN
    THEN "nan"
    ELSE IF \A k \in 1..Len(data) : data[k] = centers[j] THEN "zero"
    ELSE "pos"

\* line 762: aaa = (1.0 - cov_constr) * aaa + cov_constr * (aaa0 / no_samples)
\* for cov_constr 0.0 and 1.0 (0 * nan is nan)
Constrain(kind, cc) ==
    IF kind = "nan" THEN "nan" ELSE IF cc = 100 THEN "pos" ELSE kind

\* lines 733-736: aaa0, the sum of aaa over the clusters
Pooled(centers, data, u, e) ==
    IF \E j \in 1..Len(centers) : Covariance(centers, data, u, e, j) = "nan"
    THEN "nan"
    ELSE IF \A j \in 1..Len(centers) :
                Covariance(centers, data, u, e, j) = "zero"
    THEN "zero"
    ELSE "pos"

\* the matrix the squared differences of cluster j are multiplied with:
\* 1 for 'fcm'; mmm = det(aaa) ** (1 / N) * pinv(aaa) for 'det' (line 737,
\* of aaa0) and 'gk' (line 771): a * (1 / a) = 1 for a > 0, and 0 * 0 = 0
\* for a = 0, whose pseudo-inverse is 0.  (The condition number of a 1 x 1
\* matrix a > 0 is 1; for a = 0 lines 764-769 leave 0.)
Metric(centers, data, u, e, cl, cc, j) ==
    IF cl = "fcm" THEN "pos"
    ELSE IF cl = "det" THEN Pooled(centers, data, u, e)
    ELSE Constrain(Covariance(centers, data, u, e, j), cc)

\* np.linalg.pinv of a matrix that holds nan: LinAlgError (SVD did not
\* converge) where the LAPACK build reports it
LinAlgRaises(centers, data, u, e, cl, cc) ==
    \E j \in 1..Len(centers) : Metric(centers, data, u, e, cl, cc, j) = "nan"

\* fuzzy_dist with one feature; z is the np.random.normal() of line 815, in
\* units of the floor.
\*   ddd[j, k] = sqrt(mmm * (data[k] - cent[j]) ** 2)
\*   ddd[ddd == 0] = 1e-10
\*   ddd[ddd == np.inf] = z * 1e-10
fuzzy_dist(centers, data, u, e, cl, cc, z) ==
    [j \in 1..Len(centers) |->
        LET mmm == Metric(centers, data, u, e, cl, cc, j)
        IN [k \in 1..Len(data) |->
               IF mmm = "nan" THEN NaN
               ELSE IF centers[j] = NaN THEN NaN
               ELSE IF mmm = "zero" THEN EPS
               ELSE IF Overflows(data[k]) THEN z * EPS
               ELSE FloorZero((DistScale \div PosScale)
                                  * Abs(data[k] - centers[j]))]]

\* ----------------------------------------------------------- fuzzy_means
\* expo - 1 = 0 makes -2 / (expo - 1) raise ZeroDivisionError (expo is the
\* Python float read from the spin box).
ExpoRaises(e) == e = 100

\* tmp = edist ** (-2 / (expo - 1)) for one entry.
\*   expo 2.00: d^(-2), on the grid TmpNum / d^2
\*   expo 0.00: d^2
\*   expo 1.01: d^(-200) has no place on an integer grid, see
\*              SharpMembership
TmpPow(d, e) ==
    IF d = NaN THEN NaN
    ELSE IF e = 200 THEN TmpNum \div (d * d)
    ELSE d * d

TmpMat(dist, e) ==
    [j \in 1..Rows(dist) |-> [k \in 1..Cols(dist) |-> TmpPow(dist[j][k], e)]]

\* column k of mat holds the value v
ColHas(mat, k, v) == \E j \in 1..Rows(mat) : mat[j][k] = v

\* uuu = tmp / np.sum(tmp, 0): every column is divided by its own sum; a
\* nan in the column makes the sum nan.
Normalise(tmp) ==
    [j \in 1..Rows(tmp) |->
        [k \in 1..Cols(tmp) |->
            IF ColHas(tmp, k, NaN) THEN NaN
            ELSE (MemScale * tmp[j][k]) \div ColSum(tmp, k)]]

\* the rows of column k that hold its smallest distance
Nearest(dist, k) ==
    {j \in 1..Rows(dist) : \A l \in 1..Rows(dist) : dist[j][k] <= dist[l][k]}

\* lines 632-633 for expo 1.01: tmp = edist ** (-200), uuu = tmp / sum.
\* (1e-10) ** (-200) = 1e2000 is above the float64 range, inf: in a column
\* with a distance at the floor the rows at the floor are inf / inf = nan
\* and the other rows x / inf = 0.  In a column with no distance at the
\* floor, two distances d1 < d2 below 4.0 have (d1 / d2) ** 200 < 1e-5,
\* under one unit of the membership grid: the nearest rows share 1, the
\* others are 0.  A negative distance to a non-integer power is nan, and
\* so is the sum of its column.
SharpMembership(dist) ==
    [j \in 1..Rows(dist) |->
        [k \in 1..Cols(dist) |->
            IF ColHas(dist, k, NaN) \/ ColHas(dist, k, -EPS) THEN NaN
            ELSE IF ColHas(dist, k, EPS)
                 THEN (IF dist[j][k] = EPS THEN NaN ELSE 0)
            ELSE IF j \in Nearest(dist, k)
                 THEN MemScale \div Cardinality(Nearest(dist, k))
            ELSE 0]]

\* the membership update rule, lines 632-633 (and 578-579, 590-591)
Membership(dist, e) ==
    IF e = 101 THEN SharpMembership(dist)
    ELSE CHOOSE u \in {Normalise(tmp) : tmp \in {TmpMat(dist, e)}} : TRUE

MfMat(u, e) ==
    [j \in 1..Rows(u) |-> [k \in 1..Cols(u) |-> MfPow(u[j][k], e)]]

\* cent = np.dot(m_f, data) / sum(m_f, 1): the m_f-weighted mean of the samples
NewCenters(mf, data) ==
    [j \in 1..Rows(mf) |->
        IF \E k \in 1..Len(data) : mf[j][k] = NaN THEN NaN
        ELSE SumSeq([k \in 1..Len(data) |-> mf[j][k] * data[k]])
                 \div SumSeq(mf[j])]

\* obj_fcn[i] = np.sum((edist ** 2) * m_f)
Objective(dist, mf) ==
    IF \E j \in 1..Rows(dist) : \E k \in 1..Cols(dist) :
           dist[j][k] = NaN \/ mf[j][k] = NaN
    THEN NaN
    ELSE MatSum([j \in 1..Rows(dist) |->
             [k \in 1..Cols(dist) |-> dist[j][k] * dist[j][k] * mf[j][k]]])

\* obj_fcn[i] > obj_fcn[i - 1]
Increased(prev, cur) == prev # NaN /\ cur # NaN /\ cur > prev

\* the improvement itself against the threshold (no division by
\* obj_fcn[i-1])
BelowAbsolute(prev, cur, thresh) ==
    /\ prev # NaN /\ cur # NaN
    /\ prev - cur < thresh

\* (obj_fcn[i-1] - obj_fcn[i]) / obj_fcn[i-1] < term_thresh / 100, with
\* term_thresh / 100 in lowest terms (0 / 0 is nan, and nan < x is False)
BelowThreshold(prev, cur, thresh) ==
    /\ prev # NaN /\ cur # NaN
    /\ prev # 0
    /\ (prev - cur) * (100 \div GCD(thresh, 100))
           < (thresh \div GCD(thresh, 100)) * prev

\* a deletion that starts one entry late (np.s_[i + 1::])
DeleteAfter(trace, idx) == SubSeq(trace, 1, idx + 1)

\* obj_fcn = np.delete(obj_fcn, np.s_[i::]): entries i, i+1, ... are removed
\* (i is 0-based; the sequence is 1-based)
DeleteFrom(trace, idx) == SubSeq(trace, 1, idx)

\* obj_fcn = np.zeros(maxit)
Zeros(n) == [x \in 1..n |-> 0]

\* obj_fcn[i] = v  (i is 0-based)
SetAt(trace, idx, v) == [trace EXCEPT ![idx + 1] = v]

\* clobj_fcn1[-1]: the last entry of a returned trace
Last(trace) == trace[Len(trace)]

\* idx = np.argmax(uuu, 0): per column, the first row holding the maximum
\* (the first row holding nan when the column has one)
ArgMax0(u) ==
    [k \in 1..Cols(u) |->
        IF ColHas(u, k, NaN)
        THEN CHOOSE j \in 1..Rows(u) :
                 u[j][k] = NaN /\ \A l \in 1..(j - 1) : u[l][k] # NaN
        ELSE CHOOSE j \in 1..Rows(u) :
                 /\ \A l \in 1..Rows(u) : u[l][k] <= u[j][k]
                 /\ \A l \in 1..(j - 1) : u[l][k] < u[j][k]]

\* the indices taken from membership and centers alone
IndicesWithoutDistances(u, centers, dist) ==
    [idx |-> ArgMax0(u), uuu |-> u, cent |-> centers, edist |-> None]

\* vrc, nce, xbi (lines 668-672): var_ratio and xie_beni are called once
\* with (data, idx, cent, edist) and (data, expo, uuu, cent, edist), nce is
\* computed from uuu; the indices are kept as the arguments they are
\* functions of.
ValidityIndices(u, centers, dist) ==
    [idx |-> ArgMax0(u), uuu |-> u, cent |-> centers, edist |-> dist]

\* ---------------------------------------------------------------- inputs
Thresholds == {0, 50}                  \* term_thresh, in per cent
Expos == {0, 100, 101, 200}            \* expo (the spin box allows 0..99.99)
SampleVals == {v * PosScale : v \in 0..MaxVal}
MemVals == {-1, 2}                     \* entries of a supplied membership
Models == {"fcm", "det", "gk"}         \* cltype
CovConstrs == {0, 100}                 \* cov_constr 0.0 and 1.0
Strategies == {"random", "manual", "datadriven"}
NormalDraws == {-1, 2}                 \* values of np.random.normal()

\* np.random.uniform(xmins[np.zeros(K, int), :], xmaxs[np.zeros(K, int), :])
\* with xmins = np.minimum(data, 1), xmaxs = np.maximum(data, 1): K draws
\* from [low, high) of row 0 of the data (low when low = high).
UniformDraws(data) ==
    LET low == Min2(data[1], PosScale)
        high == Max2(data[1], PosScale)
    IN {c \in low..high :
            /\ (c - low) % GridStep = 0
            /\ c < high \/ low = high}

\* the clusters are interchangeable: the draws are listed in rising order
Rising(c) == \A j \in 1..(Len(c) - 1) : c[j] <= c[j + 1]

\* sample vectors: the values of the grid, the same with the last sample at
\* Huge, and the same with every sample 1.0 higher
HasHuge(data) == \E k \in 1..Len(data) : Overflows(data[k])
AboveGrid(data) ==
    \E k \in 1..Len(data) :
        data[k] > MaxVal * PosScale /\ ~Overflows(data[k])
Samples ==
    [1..NumSamples -> SampleVals]
        \cup {[d EXCEPT ![NumSamples] = Huge] : d \in [1..NumSamples -> SampleVals]}
        \cup {[k \in 1..NumSamples |-> d[k] + PosScale] :
                  d \in [1..NumSamples -> SampleVals]}

RandomCenters(k, data) == {c \in [1..k -> UniformDraws(data)] : Rising(c)}

\* a K x N matrix of centers, one feature
AsMatrix(centers) == [j \in 1..Len(centers) |-> <<centers[j]>>]
AsCenters(mat) == [j \in 1..Rows(mat) |-> mat[j][1]]

\* supplied centers: k distinct grid positions inside the range of the
\* sample values, in rising order
CenterVals == {c \in 0..(MaxVal * PosScale) : c % GridStep = 0}
Distinct(c) == \A j \in 1..(Len(c) - 1) : c[j] < c[j + 1]
SuppliedCenters(k) ==
    {AsMatrix(c) : c \in {x \in [1..k -> CenterVals] : Distinct(x)}}
\* supplied memberships: the first column is drawn from MemVals, the other
\* entries are 2, and the sum of all entries is positive
SuppliedMemberships(k) ==
    {m \in {[j \in 1..k |-> [x \in 1..NumSamples |->
                 IF x = 1 THEN f[j] ELSE 2]] : f \in [1..k -> MemVals]} :
        MatSum(m) > 0}
WrongShapes(k) ==
    {[j \in 1..(k + 1) |-> <<0>>], [j \in 1..k |-> [x \in 1..(NumSamples + 1) |-> 1]]}

HasNegative(mat) == \E j \in 1..Rows(mat) : \E k \in 1..Cols(mat) : mat[j][k] < 0

\* m_f * data with m_f of shape (K, M) and data of shape (M, 1) broadcasts
\* only when K = M, K = 1 or M = 1
Broadcasts(k, m) == k = m \/ k = 1 \/ m = 1

\* init has the shape (K, M) and not the shape (K, N)
InitIsMembershipShape(mat, k, data) ==
    /\ mat # None
    /\ ~(Rows(mat) = k /\ Cols(mat) = DataTypes)
    /\ Rows(mat) = k /\ Cols(mat) = Len(data)

\* ------------------------------------------------------------------- Init
FmUnbound ==
    /\ cent = None /\ uuu = <<>> /\ m_f = None /\ edist = None
    /\ obj_fcn = None /\ i = -1
    /\ cent_prev = None /\ uprev = None /\ dist_prev = None /\ ret = None
    /\ state = "INIT" /\ kept = <<>>

Init ==
    /\ caller \in {"run", "direct"}
    /\ exc = "" /\ printed = <<>>
    /\ shapes = None /\ test = TRUE /\ sret = None /\ run_called = FALSE
    /\ calls = <<>> /\ first = None
    /\ dat_in \in Samples
    /\ min_cluster \in 1..MaxClust
    /\ FmUnbound
    /\ cnt = -1 /\ run_j = 0
    /\ clu = None /\ clcent = None /\ clobj_fcn = None /\ clvidx = None
    /\ outdata = None /\ restarts = <<>> /\ clrun = 0
    /\ run_i = min_cluster - 1
    /\ IF caller = "run"
       THEN /\ strategy \in Strategies
            /\ max_cluster \in (min_cluster - 1)..MaxClust
            /\ no_runs \in 1..MaxCalls
            /\ (max_cluster - min_cluster + 1) * no_runs <= MaxCalls
            \* the manual block, lines 278-331, comes before line 334
            /\ dat_out = IF strategy = "manual" THEN None
                         ELSE [x \in 1..(max_cluster - min_cluster + 1) |-> None]
            /\ no_clust = 0 /\ init = None
            /\ pc = IF strategy = "manual" THEN "run_manual" ELSE "run_for"
            \* the repeated runs are read by the random strategy only
            /\ strategy # "random" => no_runs = 1
       ELSE /\ strategy = "none"
            /\ Rising(dat_in)     \* fuzzy_means treats the samples alike
            /\ max_cluster = min_cluster
            /\ no_runs = 1
            /\ dat_out = <<>>
            /\ no_clust = min_cluster
            /\ init \in {None} \cup SuppliedCenters(no_clust)
                        \cup SuppliedMemberships(no_clust)
                        \cup WrongShapes(no_clust)
            /\ pc = "fm_init"
    /\ max_iter \in 1..MaxIter
    \* samples above the grid: the random strategy, one cluster count, one
    \* run of one iteration
    /\ AboveGrid(dat_in)
           => (/\ caller = "run" /\ strategy = "random" /\ max_iter = 1
               /\ max_cluster = min_cluster /\ no_runs = 1)
    /\ cltype \in Models
    \* 'det' and 'gk' are read at line 631 only, which a call with supplied
    \* centers reaches; cov_constr is read by 'gk' only
    /\ cltype # "fcm" => (caller = "direct" /\ init \in SuppliedCenters(no_clust))
    \* a sample at Huge: iteration 0 only (the mean of Huge and grid values
    \* has no place on the position grid), with 'fcm'
    /\ HasHuge(dat_in) => (caller = "direct" /\ cltype = "fcm" /\ max_iter = 1)
    /\ cov_constr \in CovConstrs
    /\ cltype # "gk" => cov_constr = 0
    /\ term_thresh \in Thresholds
    \* a supplied membership matrix ends the call at line 601, before
    \* maxit and term_thresh are read
    /\ InitIsMembershipShape(init, no_clust, dat_in)
           => (max_iter = 1 /\ term_thresh = 0)
    /\ expo \in Expos
    \* expo 1.01 with one cluster, or with run() and one iteration: the
    \* re-estimated centers of a second cluster would be decided by
    \* weights far below the m_f grid
    /\ expo = 101 => \/ (min_cluster = 1 /\ max_cluster <= 1)
                      \/ (caller = "run" /\ max_iter = 1)

\* ------------------------------------------------- fuzzy_means: lines 543-615
Raise(name) == pc' = "raised" /\ exc' = name

\* init.size == 0 (lines 563-577): the centers are drawn, then
\* self.fuzzy_dist is looked up; FuzzyClust has no such attribute
\* (fuzzy_dist is a function of the module).
FmInitEmpty ==
    /\ pc = "fm_init"
    /\ init = None
    /\ \E c \in RandomCenters(no_clust, dat_in) : cent' = c
    /\ Raise("AttributeError")
    /\ UNCHANGED <<printed, params, first, runlocals, no_clust, init, uuu, m_f,
                   edist, obj_fcn, i, cent_prev, uprev, dist_prev, ret,
                   state, kept>>

\* init of shape (no_clust, data_types) (lines 582-592, 609-615)
FmInitCenters ==
    /\ pc = "fm_init"
    /\ init # None
    /\ Rows(init) = no_clust /\ Cols(init) = DataTypes
    /\ cent' = AsCenters(init)
    /\ \E z \in NormalDraws :
           edist' = fuzzy_dist(cent', dat_in, <<>>, expo, "fcm", cov_constr, z)
    /\ IF ExpoRaises(expo)
       THEN /\ Raise("ZeroDivisionError")
            /\ UNCHANGED <<uuu, m_f, obj_fcn, state>>
       ELSE /\ uuu' = Membership(edist', expo)
            /\ m_f' = MfMat(uuu', expo)
            /\ obj_fcn' = Zeros(max_iter)
            /\ pc' = "fm_loop"
            /\ state' = "ITERATING"
            /\ exc' = exc
    /\ UNCHANGED <<printed, params, first, runlocals, no_clust, init, i,
                   cent_prev, uprev, dist_prev, ret, kept>>

\* init of shape (no_clust, no_samples) (lines 594-603): a negative entry
\* is reported by print only; uuu is init over the sum of ALL entries; the
\* statement that computes cent raises: ValueError when m_f * data does not
\* broadcast, else IndexError from np.size(data, 2) on the 2-D data.
FmInitMembership ==
    /\ pc = "fm_init"
    /\ init # None
    /\ ~(Rows(init) = no_clust /\ Cols(init) = DataTypes)
    /\ Rows(init) = no_clust /\ Cols(init) = Len(dat_in)
    /\ printed' = IF HasNegative(init)
                  THEN Append(printed, "No negative memberships allowed!")
                  ELSE printed
    /\ uuu' = [j \in 1..Rows(init) |-> [k \in 1..Cols(init) |->
                   (MemScale * init[j][k]) \div MatSum(init)]]
    /\ m_f' = MfMat(uuu', expo)
    /\ Raise(IF Broadcasts(no_clust, Len(dat_in))
             THEN "IndexError" ELSE "ValueError")
    /\ UNCHANGED <<params, first, runlocals, no_clust, init, cent, edist, obj_fcn,
                   i, cent_prev, uprev, dist_prev, ret, state, kept>>

\* init of any other shape: no branch is taken, cent and edist stay
\* unbound (lines 563, 582, 594, then 609-615)
FmInitOtherShape ==
    /\ pc = "fm_init"
    /\ init # None
    /\ ~(Rows(init) = no_clust /\ Cols(init) = DataTypes)
    /\ ~(Rows(init) = no_clust /\ Cols(init) = Len(dat_in))
    /\ obj_fcn' = Zeros(max_iter)
    /\ pc' = "fm_loop"
    /\ UNCHANGED <<exc, printed, params, first, runlocals, no_clust, init, cent,
                   uuu, m_f, edist, i, cent_prev, uprev, dist_prev, ret,
                   state, kept>>

\* ------------------------------------------------- fuzzy_means: lines 621-663
\* line 623 with cent unbound: UnboundLocalError in iteration 0
FmLoopUnbound ==
    /\ pc = "fm_loop"
    /\ cent = None
    /\ i' = i + 1
    /\ Raise("UnboundLocalError")
    /\ UNCHANGED <<printed, params, first, runlocals, no_clust, init, cent, uuu,
                   m_f, edist, obj_fcn, cent_prev, uprev, dist_prev, ret,
                   state, kept>>

\* a loop over range(maxit - 1)
HasNextOneLess(idx, maxit) == idx + 1 < maxit - 1

\* the for loop has a next iteration
HasNext(idx, maxit) == idx + 1 < maxit

\* an in-place update of the array a name is bound to (cent[:] = new)
InPlace(old, new) == new

\* line 628, cent = np.dot(...) / ...: the name cent is bound to a new
\* array; the array it was bound to (init, since line 583) keeps its
\* contents
Rebind(old, new) == old

\* lines 645-650: what the rollback leaves in uuu, cent, obj_fcn, edist
RollBack(up, cp, dp, trace, idx) ==
    [uuu |-> up, cent |-> cp, obj_fcn |-> DeleteFrom(trace, idx), edist |-> dp]

\* one iteration of the loop body, lines 623-663 (each value is bound once,
\* in the order the statements compute it)
FmIterate ==
    /\ pc = "fm_loop"
    /\ cent # None
    /\ HasNext(i, max_iter)
    /\ i' = i + 1
    /\ cent_prev' = cent /\ uprev' = uuu /\ dist_prev' = edist
    /\ \E c1 \in {IF i' > 0 THEN NewCenters(m_f, dat_in) ELSE cent} :
       \E z \in NormalDraws :
       \E d1 \in {fuzzy_dist(c1, dat_in, uuu, expo, cltype, cov_constr, z)} :
       \E u1 \in {Membership(d1, expo)} :
       \E f1 \in {MfMat(u1, expo)} :
       \E o1 \in {SetAt(obj_fcn, i', Objective(d1, f1))} :
       \E inc \in {i' > 0 /\ Increased(o1[i'], o1[i' + 1])} :
       \E conv \in {i' > 0 /\ ~inc
                    /\ BelowThreshold(o1[i'], o1[i' + 1], term_thresh)} :
          /\ m_f' = f1
          /\ IF inc
             THEN \E rb \in {RollBack(uprev', cent_prev', dist_prev', o1, i')} :
                  /\ uuu' = rb.uuu /\ cent' = rb.cent
                  /\ obj_fcn' = rb.obj_fcn /\ edist' = rb.edist
                  /\ kept' = kept
                  /\ state' = "ROLLED_BACK"
             ELSE /\ uuu' = u1 /\ cent' = c1 /\ obj_fcn' = o1 /\ edist' = d1
                  /\ kept' = Append(kept, [uuu |-> u1, cent |-> c1,
                                           edist |-> d1, obj |-> o1[i' + 1]])
                  /\ state' = IF conv THEN "CONVERGED"
                              ELSE IF HasNext(i', max_iter) THEN "ITERATING"
                              ELSE "MAX_ITER_REACHED"
          /\ pc' = IF inc \/ conv \/ ~HasNext(i', max_iter)
                   THEN "fm_post" ELSE "fm_loop"
          /\ init' = IF i' = 1 THEN Rebind(init, AsMatrix(c1)) ELSE init
    /\ UNCHANGED <<exc, printed, params, first, runlocals, no_clust, ret>>

\* line 631 with 'det' or 'gk' and a nan in aaa: np.linalg.pinv raises
\* (the other outcome, nan distances, is in FmIterate)
FmLinAlgError ==
    /\ pc = "fm_loop"
    /\ cent # None
    /\ HasNext(i, max_iter)
    /\ i' = i + 1
    /\ cent_prev' = cent /\ uprev' = uuu /\ dist_prev' = edist
    /\ cent' = IF i' > 0 THEN NewCenters(m_f, dat_in) ELSE cent
    /\ LinAlgRaises(cent', dat_in, uuu, expo, cltype, cov_constr)
    /\ Raise("LinAlgError")
    /\ UNCHANGED <<printed, params, first, runlocals, no_clust, init, uuu, m_f,
                   edist, obj_fcn, ret, state, kept>>

\* lines 668-674: the validity indices and the return
FmReturn ==
    /\ pc = "fm_post"
    /\ ret' = [uuu |-> uuu, cent |-> cent, obj_fcn |-> obj_fcn,
               vidx |-> ValidityIndices(uuu, cent, edist)]
    /\ pc' = IF caller = "run" THEN "run_cmp" ELSE "done"
    /\ UNCHANGED <<exc, printed, params, first, runlocals, no_clust, init, cent,
                   uuu, m_f, edist, obj_fcn, i, cent_prev, uprev, dist_prev,
                   state, kept>>

\* fuzzy_means is called again with the arguments of the call that has
\* returned (lines 543-559 of the second call)
FmAgain ==
    /\ pc = "done" /\ caller = "direct"
    /\ first = None
    /\ first' = [ret |-> ret, state |-> state, kept |-> kept]
    /\ cent' = None /\ uuu' = <<>> /\ m_f' = None /\ edist' = None
    /\ obj_fcn' = None /\ i' = -1
    /\ cent_prev' = None /\ uprev' = None /\ dist_prev' = None /\ ret' = None
    /\ state' = "INIT" /\ kept' = <<>>
    /\ pc' = "fm_init"
    /\ UNCHANGED <<exc, printed, params, runlocals, no_clust, init>>

\* ---------------------------------------------------------- FuzzyClust.run
\* lines 278-287 with the manual strategy: QFileDialog.getOpenFileName of
\* PyQt5 returns the pair (name, filter); it is never '', and
\* os.path.dirname of a tuple raises TypeError
RunManual ==
    /\ pc = "run_manual"
    /\ Raise("TypeError")
    /\ UNCHANGED <<printed, params, first, runlocals, fmlocals>>

\* line 387: clobj_fcn1[-1] < clobj_fcn[-1]
Better(trace1, trace) ==
    Last(trace1) # NaN /\ Last(trace) # NaN /\ Last(trace1) < Last(trace)

\* lines 342-345: idx[x] for x in 0..K, the edges of the index bins of the
\* data driven strategy: idx = np.arange(0, M + M / K, M / K), idx[0] = 1
\* (the value as an index: the integer part)
BinEdge(x, m, k) == IF x = 0 THEN 1 ELSE (x * m) \div k

\* lines 336-338 and 369-372: the next cluster count, random strategy
\* With the data driven strategy, lines 342-353: idx is an array of
\* floats, and dat_in1[idx[j]:idx[j + 1], k] raises TypeError (slice
\* indices must be integers).
RunFor ==
    /\ pc = "run_for"
    /\ run_i + 1 <= max_cluster
    /\ run_i' = run_i + 1
    /\ cnt' = cnt + 1
    /\ IF strategy = "datadriven"
       THEN /\ Raise("TypeError")
            /\ UNCHANGED <<clobj_fcn, run_j, restarts, clrun>>
       ELSE /\ clobj_fcn' = <<Inf>>
            /\ run_j' = 0
            /\ restarts' = <<>> /\ clrun' = 0
            /\ pc' = "run_restart" /\ exc' = exc
    /\ UNCHANGED <<printed, params, first, clu, clcent, clvidx, dat_out,
                   outdata, calls, fmlocals>>

\* lines 373-385: one restart: the centers are drawn and fuzzy_means is
\* called with them
RunRestart ==
    /\ pc = "run_restart"
    /\ run_j < no_runs
    /\ \E c \in RandomCenters(run_i, dat_in) : init' = AsMatrix(c)
    /\ no_clust' = run_i
    /\ cent' = None /\ uuu' = <<>> /\ m_f' = None /\ edist' = None
    /\ obj_fcn' = None /\ i' = -1
    /\ cent_prev' = None /\ uprev' = None /\ dist_prev' = None /\ ret' = None
    /\ state' = "INIT" /\ kept' = <<>>
    /\ pc' = "fm_init"
    /\ calls' = Append(calls, run_i)
    /\ UNCHANGED <<exc, printed, params, first, run_i, run_j, cnt, clu, clcent,
                   clobj_fcn, clvidx, dat_out, outdata, restarts, clrun>>

\* lines 387-394: the result of the restart against the best so far
RunCompare ==
    /\ pc = "run_cmp"
    /\ restarts' = Append(restarts,
                          [obj_fcn |-> ret.obj_fcn, state |-> state,
                           final |-> kept[Len(kept)].obj])
    /\ IF Better(ret.obj_fcn, clobj_fcn)
       THEN /\ clu' = ret.uuu /\ clcent' = ret.cent
            /\ clobj_fcn' = ret.obj_fcn /\ clvidx' = ret.vidx
            /\ clrun' = Len(restarts')
       ELSE UNCHANGED <<clu, clcent, clobj_fcn, clvidx, clrun>>
    /\ run_j' = run_j + 1
    /\ pc' = "run_restart"
    /\ UNCHANGED <<exc, printed, params, first, run_i, cnt, dat_out, outdata,
                   calls, fmlocals>>

\* lines 396-438: the best run of this cluster count goes into dat_out[cnt]
RunRecord ==
    /\ pc = "run_restart"
    /\ ~(run_j < no_runs)
    /\ IF clu = None
       THEN Raise("NameError") /\ dat_out' = dat_out
       ELSE /\ dat_out' = [dat_out EXCEPT ![cnt + 1] =
                              [no_clusters |-> run_i, center |-> clcent,
                               memdat |-> clu, obj_fcn |-> clobj_fcn,
                               vidx |-> clvidx]]
            /\ pc' = "run_for" /\ exc' = exc
    /\ UNCHANGED <<printed, params, first, run_i, run_j, cnt, clu, clcent,
                   clobj_fcn, clvidx, outdata, restarts, clrun, calls,
                   fmlocals>>

\* lines 464-478: the results are published
RunEnd ==
    /\ pc = "run_for"
    /\ ~(run_i + 1 <= max_cluster)
    /\ outdata' = dat_out
    /\ pc' = "done"
    /\ UNCHANGED <<exc, printed, params, first, run_i, run_j, cnt, clu, clcent,
                   clobj_fcn, clvidx, dat_out, restarts, clrun, calls,
                   fmlocals>>

\* ------------------------------------------------- settings: lines 194-223
\* np.unique flattens the list of (rows, columns) tuples: tst holds the
\* distinct numbers that occur as a row count or a column count
UniqueSize(shp) ==
    Cardinality({shp[b][d] : b \in 1..Len(shp), d \in 1..2})

BandShapes ==
    UNION {[1..n -> (1..MaxSide) \X (1..MaxSide)] : n \in 1..MaxBands}

InitSettings ==
    /\ caller = "settings" /\ pc = "settings"
    /\ exc = "" /\ printed = <<>>
    /\ shapes \in BandShapes /\ test \in BOOLEAN
    /\ sret = None /\ run_called = FALSE
    /\ calls = <<>> /\ first = None
    /\ dat_in = <<>> /\ min_cluster = 1 /\ max_cluster = 1 /\ no_runs = 1
    /\ max_iter = 1 /\ term_thresh = 0 /\ expo = 200
    /\ cltype = "fcm" /\ cov_constr = 0 /\ strategy = "random"
    /\ FmUnbound
    /\ no_clust = 0 /\ init = None
    /\ cnt = -1 /\ run_j = 0 /\ run_i = 0
    /\ clu = None /\ clcent = None /\ clobj_fcn = None /\ clvidx = None
    /\ dat_out = None /\ outdata = None /\ restarts = <<>> /\ clrun = 0

SettingsFrame ==
    UNCHANGED <<runparams, shapes, test, first, run_i, run_j, cnt, clu,
                clcent, clobj_fcn, clvidx, dat_out, restarts, clrun, calls,
                fmlocals>>

\* lines 204-208: the size test fails
SettingsReject ==
    /\ pc = "settings"
    /\ UniqueSize(shapes) > 2
    /\ printed' = Append(printed, "Error: Your input datasets have different sizes. Merge the data first")
    /\ sret' = FALSE
    /\ pc' = "done"
    /\ UNCHANGED <<exc, run_called, outdata>>
    /\ SettingsFrame

\* lines 210-214: the dialog is shown and dismissed
SettingsCancel ==
    /\ pc = "settings"
    /\ ~(UniqueSize(shapes) > 2)
    /\ ~test
    /\ sret' = FALSE
    /\ pc' = "done"
    /\ UNCHANGED <<exc, printed, run_called, outdata>>
    /\ SettingsFrame

\* lines 210-217: test is set or the dialog is accepted; run() is invoked
SettingsRun ==
    /\ pc = "settings"
    /\ ~(UniqueSize(shapes) > 2)
    /\ run_called' = TRUE
    /\ pc' = "settings_run"
    /\ UNCHANGED <<exc, printed, sret, outdata>>
    /\ SettingsFrame

\* lines 217-223: run() has returned; when it ran to its end it has
\* published one Data() per cluster count (lines 334, 475), when it
\* returned early (line 285) it has published nothing
SettingsRunReturned ==
    /\ pc = "settings_run"
    /\ outdata' \in {outdata, [x \in 1..(max_cluster - min_cluster + 1) |-> None]}
    /\ sret' = TRUE
    /\ pc' = "done"
    /\ UNCHANGED <<exc, printed, run_called>>
    /\ SettingsFrame

\* line 217: run() raises, and settings() with it
SettingsRunRaised ==
    /\ pc = "settings_run"
    /\ Raise("Exception")
    /\ UNCHANGED <<printed, sret, run_called, outdata>>
    /\ SettingsFrame

\* ---------------------------------------------------------- specifications
\* run(), and fuzzy_means called on its own
Next ==
    \/ FmInitEmpty \/ FmInitCenters \/ FmInitMembership \/ FmInitOtherShape
    \/ FmLoopUnbound \/ FmIterate \/ FmLinAlgError \/ FmReturn
    \/ RunManual \/ RunFor \/ RunRestart \/ RunCompare \/ RunRecord \/ RunEnd

Spec == Init /\ [][Next]_vars

\* fuzzy_means called on its own with a supplied init
InitFm == Init /\ caller = "direct"

NextFm ==
    \/ FmInitEmpty \/ FmInitCenters \/ FmInitMembership \/ FmInitOtherShape
    \/ FmLoopUnbound \/ FmIterate \/ FmLinAlgError \/ FmReturn

SpecFm == InitFm /\ [][NextFm]_vars

\* the call is synchronous: once started it runs on until it returns or
\* raises
FairSpecFm == SpecFm /\ WF_vars(NextFm)

\* fuzzy_means called twice with the same arguments, the init a K x N
\* matrix of centers
InitTwice == InitFm /\ init \in SuppliedCenters(no_clust)

NextTwice ==
    \/ FmInitCenters \/ FmIterate \/ FmLinAlgError \/ FmReturn \/ FmAgain

SpecTwice == InitTwice /\ [][NextTwice]_vars

\* settings() as the entry point
NextSettings ==
    \/ SettingsReject \/ SettingsCancel \/ SettingsRun
    \/ SettingsRunReturned \/ SettingsRunRaised

SpecSettings == InitSettings /\ [][NextSettings]_vars

\* ================================================================== claims
Terminal == {"CONVERGED", "ROLLED_BACK", "MAX_ITER_REACHED"}
Returned == ret # None
InitIsCenters ==
    /\ init # None
    /\ Rows(init) = no_clust /\ Cols(init) = DataTypes
InitIsMembership ==
    /\ init # None
    /\ ~(Rows(init) = no_clust /\ Cols(init) = DataTypes)
    /\ Rows(init) = no_clust /\ Cols(init) = Len(dat_in)
InitIsOtherShape ==
    /\ init # None
    /\ ~(Rows(init) = no_clust /\ Cols(init) = DataTypes)
    /\ ~(Rows(init) = no_clust /\ Cols(init) = Len(dat_in))

\* the objective the next iteration (index i + 1 >= 1) computes, from the
\* state the loop is in
NextObjective ==
    LET c1 == NewCenters(m_f, dat_in)
        d1 == fuzzy_dist(c1, dat_in, uuu, expo, cltype, cov_constr, 1)
    IN Objective(d1, MfMat(Membership(d1, expo), expo))

\* C1: when iteration i >= 1 computes an objective above that of iteration
\* i - 1, the loop stops there (ROLLED_BACK); membership, centers and
\* distances are the ones held at the start of the iteration, the outputs of
\* iteration i - 1; the trace is the i values of iterations 0..i-1; and that
\* is what fuzzy_means returns.
C1_RollbackRestores ==
    /\ [][(pc = "fm_loop" /\ cent # None /\ i >= 0
              /\ Increased(obj_fcn[i + 1], NextObjective))
          => (/\ pc' = "fm_post" /\ state' = "ROLLED_BACK"
              /\ i' = i + 1
              /\ uuu' = uuu /\ cent' = cent /\ edist' = edist
              /\ Len(kept') = i'
              /\ obj_fcn' = [n \in 1..i' |-> kept'[n].obj])]_vars
    /\ []((state = "ROLLED_BACK" /\ Returned)
          => (/\ ret.uuu = kept[i].uuu /\ ret.cent = kept[i].cent
              /\ ret.vidx.edist = kept[i].edist
              /\ ret.obj_fcn = [n \in 1..i |-> kept[n].obj]))

C1_Witness == state = "ROLLED_BACK" /\ Returned /\ i >= 2

\* C2: when all restarts for a cluster count are done, the terminal
\* objective of the retained run is <= the terminal objective of every
\* restart executed for that cluster count.
C2_RetainedIsLowest ==
    (pc = "run_restart" /\ run_j >= no_runs /\ clrun # 0)
        => \A r \in 1..Len(restarts) :
               restarts[clrun].final <= restarts[r].final

\* C3: every returned membership matrix has each column summing to 1 (on
\* the grid: less than one unit below 1 per entry of the column, never
\* above) and every entry in [0, 1]; nan is not a number of [0, 1].
C3_PartitionOfUnity ==
    Returned =>
        \A k \in 1..Cols(ret.uuu) :
            /\ \A j \in 1..Rows(ret.uuu) :
                  /\ ret.uuu[j][k] # NaN
                  /\ ret.uuu[j][k] >= 0 /\ ret.uuu[j][k] <= MemScale
            /\ ColSum(ret.uuu, k) <= MemScale
            /\ MemScale - ColSum(ret.uuu, k) < Rows(ret.uuu)

\* C4: in every terminal state the returned objective trace is non-empty
\* and its last value is <= its first value (a comparison that is False
\* when one of the two is nan).
C4_LastNotAboveFirst ==
    Returned =>
        /\ Len(ret.obj_fcn) >= 1
        /\ Last(ret.obj_fcn) # NaN /\ ret.obj_fcn[1] # NaN
        /\ Last(ret.obj_fcn) <= ret.obj_fcn[1]

\* C5: the returned objective trace has one value per kept iteration and
\* none for an iteration that was never executed; its last entry is the
\* objective of the returned membership, centers and distances.
C5_TraceTruncated ==
    Returned =>
        /\ Len(ret.obj_fcn) = Len(kept)
        /\ Last(ret.obj_fcn) = kept[Len(kept)].obj

\* C6: a run that enters the loop executes iterations 0..max_iter-1 at
\* most, reaches one of CONVERGED, ROLLED_BACK, MAX_ITER_REACHED and then
\* returns membership, centers, trace and validity indices; when neither
\* rollback nor convergence has occurred by iteration max_iter-1 it stops
\* there with that iteration's values.
C6_Terminates ==
    /\ [](i <= max_iter - 1)
    /\ []((pc \in {"fm_post", "run_cmp"} \/ Returned) => state \in Terminal)
    /\ [](state = "MAX_ITER_REACHED"
          => (/\ i = max_iter - 1 /\ Len(kept) = max_iter
              /\ uuu = kept[max_iter].uuu /\ cent = kept[max_iter].cent
              /\ edist = kept[max_iter].edist
              /\ obj_fcn[max_iter] = kept[max_iter].obj))
    /\ [](Returned => (/\ ret.uuu = uuu /\ ret.cent = cent
                       /\ ret.obj_fcn = obj_fcn
                       /\ ret.vidx = ValidityIndices(uuu, cent, edist)))
    /\ ((pc = "fm_loop" /\ cent # None) ~> (Returned /\ state \in Terminal))

C6_Witness ==
    /\ Returned /\ state = "MAX_ITER_REACHED" /\ max_iter >= 2
    /\ kept[max_iter].obj < kept[max_iter - 1].obj

\* C7: a supplied K x M membership matrix with a negative entry is rejected
\* with a validation error before any iteration: no membership, centers,
\* distances or objective are computed from it.
C7_NegativeRejected ==
    (InitIsMembership /\ HasNegative(init) /\ pc # "fm_init")
        => (/\ pc = "raised" /\ exc = "ValidationError"
            /\ uuu = <<>> /\ m_f = None /\ cent = None /\ edist = None)

\* C8: a cluster count above the number of samples (or below 1) is rejected
\* with a validation error: no initialization, no optimization run and no
\* recorded result for it.
C8_TooManyClustersRejected ==
    (caller = "run" /\ run_i >= min_cluster
        /\ (run_i > Len(dat_in) \/ run_i < 1))
        => (/\ pc = "raised" /\ exc = "ValidationError"
            /\ no_clust # run_i
            /\ \A x \in 1..Len(dat_out) :
                   dat_out[x] # None => dat_out[x].no_clusters # run_i)

\* C9: a non-empty init whose shape is neither (K, N) nor (K, M) makes
\* fuzzy_means hand a structured error to the caller, not a crash, and no
\* iteration of the loop is executed.
C9_WrongShapeReported ==
    (InitIsOtherShape /\ pc \notin {"fm_init", "fm_loop"})
        => (/\ exc = "ValidationError"
            /\ i = -1)

\* C10: a fuzzification exponent <= 1 is reported as a structured
\* validation error before any optimization starts, not as a crash and not
\* as a result.
C10_ExponentRejected ==
    (expo <= 100 /\ InitIsCenters /\ pc # "fm_init")
        => (/\ pc = "raised" /\ exc = "ValidationError"
            /\ state = "INIT" /\ ~Returned)

\* C11: run() over the cluster counts min_cluster..max_cluster either
\* publishes one complete result for each count, labelled with it and in
\* rising order, or raises a validation error before any computation has
\* begun; what is published never holds some of the counts only.
Complete(out) ==
    /\ Len(out) = max_cluster - min_cluster + 1
    /\ \A x \in 1..Len(out) :
           out[x] # None /\ out[x].no_clusters = min_cluster + x - 1
C11_CompleteOrValidationError ==
    caller = "run"
        => (/\ pc = "raised"
                => (exc = "ValidationError" /\ calls = <<>> /\ cnt = -1)
            /\ pc = "done" => Complete(outdata)
            /\ outdata # None => Complete(outdata))

\* C12: every entry of a distance matrix computed by fuzzy_dist is at
\* least the floor 1e-10, for 'fcm', 'det' and 'gk'.
C12_DistanceFloor ==
    \A j \in 1..Len(edist) : \A k \in 1..Len(edist[j]) : edist[j][k] >= EPS

\* C13: under the random strategy every drawn center lies between the
\* smallest and the largest sample of the feature; the range around 1.0 is
\* used only when the two are equal.
SampleSet == {dat_in[k] : k \in 1..Len(dat_in)}
SmallestSample == CHOOSE v \in SampleSet : \A w \in SampleSet : v <= w
LargestSample == CHOOSE v \in SampleSet : \A w \in SampleSet : w <= v
C13_DrawnWithinDataRange ==
    (caller = "run" /\ strategy = "random" /\ init # None)
        => \A j \in 1..Rows(init) :
               IF SmallestSample = LargestSample
               THEN /\ Min2(SmallestSample, PosScale) <= init[j][1]
                    /\ init[j][1] <= Max2(SmallestSample, PosScale)
               ELSE /\ SmallestSample <= init[j][1]
                    /\ init[j][1] <= LargestSample

\* C14: a second call of fuzzy_means with the same data, cluster count,
\* model, parameters and supplied K x N centers goes through the same
\* states as the first and returns the same membership, centers, objective
\* trace and validity indices.
C14_SecondRunSame ==
    (first # None /\ pc = "done")
        => (/\ ret.uuu = first.ret.uuu /\ ret.cent = first.ret.cent
            /\ ret.obj_fcn = first.ret.obj_fcn
            /\ state = first.state /\ kept = first.kept)

\* C15: with cov_constr = 1 the 'gk' model is the 'fcm' model: at every
\* iteration the distance matrix of the run is the Euclidean distance
\* matrix of its centers, and the run does not fail where 'fcm' does not.
EuclideanDist == fuzzy_dist(cent, dat_in, <<>>, expo, "fcm", 0, 1)
C15_ConstrainedGkIsFcm ==
    (cltype = "gk" /\ cov_constr = 100 /\ InitIsCenters)
        => (/\ exc # "LinAlgError"
            /\ (cent # None /\ edist # None) => edist = EuclideanDist)

\* C16: a run that ends in MAX_ITER_REACHED is reported as such: what
\* fuzzy_means returns for it is not what a call that ends in CONVERGED
\* returns.
\* The same call with a threshold of 50 per cent goes through the same
\* iterations when no iteration before the last improves by less than 50 per
\* cent, and leaves the loop by the break of line 663 at iteration
\* maxit - 1 when the last one does: it returns the same values.
ReturnedByConvergedRun ==
    /\ term_thresh = 0 /\ max_iter >= 2 /\ Len(kept) = max_iter
    /\ \A x \in 2..(max_iter - 1) :
           ~BelowThreshold(kept[x - 1].obj, kept[x].obj, 50)
    /\ BelowThreshold(kept[max_iter - 1].obj, kept[max_iter].obj, 50)
C16_MaxIterReported ==
    (Returned /\ state = "MAX_ITER_REACHED") => ~ReturnedByConvergedRun

C18_EmptyInitRuns ==
    (caller = "direct" /\ init = None /\ pc # "fm_init")
        => (/\ exc = ""
            /\ pc \in {"fm_loop", "fm_post", "done"}
            /\ cent \in RandomCenters(no_clust, dat_in)
            /\ uuu # <<>> /\ edist # None)

\* C19: when run() has ended, fuzzy_means has been called for every cluster
\* count of the range exactly once under the data driven and the manual
\* strategy, and exactly no_runs times under the random strategy.
TimesCalled(k) == Cardinality({x \in 1..Len(calls) : calls[x] = k})
C19_CallsPerClusterCount ==
    (caller = "run" /\ pc \in {"done", "raised"})
        => \A k \in min_cluster..max_cluster :
               TimesCalled(k) = IF strategy = "random" THEN no_runs ELSE 1

C21_NoTestAtIterationZero ==
    /\ [][(pc = "fm_loop" /\ cent # None /\ i = -1 /\ i' = 0 /\ exc' = "")
          => (/\ state' \notin {"CONVERGED", "ROLLED_BACK"}
              /\ cent' = cent
              /\ InitIsCenters => cent' = AsCenters(init)
              /\ Len(kept') = 1 /\ kept'[1].cent = cent
              /\ max_iter >= 2 => (pc' = "fm_loop" /\ state' = "ITERATING")
              /\ max_iter = 1
                     => (pc' = "fm_post" /\ state' = "MAX_ITER_REACHED"))]_vars
    /\ ((pc = "fm_loop" /\ i = 0) ~> (i >= 1))

C21_Witness ==
    /\ Returned /\ i >= 1 /\ max_iter >= 2
    /\ kept[1].obj = NaN

\* C22: an infinite distance is replaced by a small positive finite value:
\* the distance matrix of data that overflows holds no infinite entry and
\* no entry <= 0.
C22_InfiniteMadePositive ==
    (HasHuge(dat_in) /\ edist # None)
        => \A j \in 1..Rows(edist) : \A k \in 1..Cols(edist) :
               /\ edist[j][k] # Inf /\ edist[j][k] # NaN
               /\ edist[j][k] > 0

\* C23: under the data driven strategy, for every cluster count K reached,
\* the K index bins are contiguous and hold every sample index 0..M-1
\* exactly once, and the start matrix of the call is made from them: the
\* step that builds it does not fail.
InBin(s, m, k, j) == BinEdge(j - 1, m, k) <= s /\ s < BinEdge(j, m, k)
C23_BinsPartitionSamples ==
    (caller = "run" /\ strategy = "datadriven" /\ run_i >= min_cluster
        /\ run_i <= Len(dat_in))
        => (/\ exc = ""
            /\ \A s \in 0..(Len(dat_in) - 1) :
                   Cardinality({j \in 1..run_i :
                                    InBin(s, Len(dat_in), run_i, j)}) = 1)

\* C24: a supplied K x M membership matrix without negative entries is
\* first rescaled so that every column sums to 1 (on the grid: less than
\* one unit below 1 per entry of the column), and the initial centers are
\* then the m_f-weighted means of the samples, as in the loop.
C24_MembershipInitNormalised ==
    (InitIsMembership /\ ~HasNegative(init) /\ pc # "fm_init")
        => (/\ exc = ""
            /\ \A k \in 1..Cols(uuu) :
                   /\ ColSum(uuu, k) <= MemScale
                   /\ MemScale - ColSum(uuu, k) < Rows(uuu)
            /\ cent = NewCenters(m_f, dat_in))

\* C25: whatever the initialisation and the model, the membership a call
\* holds before iteration 0 is the membership update applied to the
\* Euclidean ('fcm') distances from its initial centers.
C25_EntryMembershipFromFcm ==
    (i = -1 /\ uuu # <<>>)
        => (/\ cent # None /\ edist # None
            /\ \E z \in NormalDraws :
                   edist = fuzzy_dist(cent, dat_in, <<>>, expo, "fcm", 0, z)
            /\ uuu = Membership(edist, expo))

\* C26: the validity indices are computed once per call, after the loop
\* has reached its terminal state and never inside it, from the
\* membership, centers and distances the call returns; after a rollback
\* these are the restored values of the previous iteration.
C26_IndicesOnceFromTerminal ==
    /\ [][ret' # ret
          => (/\ ret = None /\ pc = "fm_post" /\ state \in Terminal
              /\ state' = state
              /\ uuu' = uuu /\ cent' = cent /\ edist' = edist
              /\ ret'.uuu = uuu /\ ret'.cent = cent
              /\ ret'.vidx.idx = ArgMax0(uuu)
              /\ ret'.vidx.uuu = uuu /\ ret'.vidx.cent = cent
              /\ ret'.vidx.edist = edist)]_vars
    /\ [](pc = "fm_loop" => ~Returned)
    /\ []((Returned /\ state = "ROLLED_BACK")
          => (/\ ret.vidx.uuu = kept[i].uuu /\ ret.vidx.cent = kept[i].cent
              /\ ret.vidx.edist = kept[i].edist))
    /\ []((Returned /\ state # "ROLLED_BACK")
          => (/\ ret.vidx.uuu = kept[i + 1].uuu
              /\ ret.vidx.cent = kept[i + 1].cent
              /\ ret.vidx.edist = kept[i + 1].edist))

C26_Witness ==
    /\ Returned /\ state = "ROLLED_BACK" /\ i >= 1
    /\ ret.vidx.edist = kept[i].edist
    /\ ret.vidx.edist # None

\* C27: the objectives of the kept iterations never increase: for each two
\* consecutive kept iterations the later objective is <= the earlier one
\* (a comparison that is False when one of the two is nan).
C27_KeptObjectivesDescend ==
    \A n \in 2..Len(kept) :
        /\ kept[n].obj # NaN /\ kept[n - 1].obj # NaN
        /\ kept[n].obj <= kept[n - 1].obj

\* C28: whenever the bands do not all have one shape, settings() returns
\* False, never invokes run() and leaves outdata as it was; run() is
\* invoked only when all bands share one shape.
AllSameShape(shp) == \A a, b \in 1..Len(shp) : shp[a] = shp[b]
C28_MixedShapesRejected ==
    (caller = "settings" /\ ~AllSameShape(shapes))
        => (/\ ~run_called
            /\ outdata = None
            /\ pc \notin {"settings", "settings_run"} => sret = FALSE)

\* C29: a restart that follows a retained one replaces it only if the
\* objective it ended with is strictly lower than the objective the
\* retained run ended with; with an equal objective the retained
\* membership, centers, trace and indices all stay.
C29_ReplacedOnlyIfLower ==
    [][(pc = "run_cmp" /\ clrun # 0 /\ Len(restarts') = Len(restarts) + 1)
          => (/\ clrun' # clrun
                    => (/\ restarts'[clrun'].final # NaN
                        /\ restarts'[clrun].final # NaN
                        /\ restarts'[clrun'].final < restarts'[clrun].final)
              /\ restarts'[Len(restarts')].final = restarts'[clrun].final
                    => (/\ clrun' = clrun /\ clu' = clu /\ clcent' = clcent
                        /\ clobj_fcn' = clobj_fcn /\ clvidx' = clvidx))]_vars

\* C30: what is recorded for a cluster count K comes from one run with K
\* clusters: membership and centers have K rows, the indices are those of
\* that membership and those centers, and the trace is the trace of a run
\* (not the initial best-so-far value); nothing of another cluster count
\* is recorded under K.
RecordedFromOwnRun(rec, k) ==
    /\ rec.no_clusters = k
    /\ Rows(rec.memdat) = k /\ Len(rec.center) = k
    /\ rec.vidx.uuu = rec.memdat /\ rec.vidx.cent = rec.center
    /\ rec.obj_fcn # <<Inf>>

C30_RecordedFromOwnRun ==
    \A x \in 1..Len(dat_out) :
        dat_out[x] # None => RecordedFromOwnRun(dat_out[x], min_cluster + x - 1)
====
